---- MODULE Spec2Model ----
(***************************************************************************)
(* The Stormpath connector for Loopback (loopback-connector-stormpath).    *)
(*                                                                         *)
(* The connector translates the ORM verbs (create, find, exists, count,    *)
(* all, save, authenticate, destroyAll, updateAll, updateOrCreate) into    *)
(* calls on the remote account store.  Every remote call is asynchronous:  *)
(* the verb issues it and a callback runs when the response arrives.  One  *)
(* action of this module is one handler of the connector: the verb itself  *)
(* or one of its callbacks.                                                *)
(*                                                                         *)
(* Spec is the behaviour of the verbs on a connected data source;          *)
(* ConnectSpec is the behaviour of connect on a connector just             *)
(* constructed.  connect touches the connection handle alone and the       *)
(* verbs only read it.  MergeSpec applies updateAccount, and LocatorSpec   *)
(* the two locator conversions, to inputs drawn from bounded sets.         *)
(*                                                                         *)
(* The remote store is the external collaborator of the connector: it      *)
(* keeps the accounts under their hrefs, stores the fields it is given     *)
(* verbatim, and may fail any call with a client or a server error.        *)
(***************************************************************************)
EXTENDS Integers, Sequences, FiniteSets, TLC

\* Number of accounts the remote store accepts in one behaviour.
MaxCreated == 2

\* ---------------------------------------------------------------- values

\* JavaScript's undefined, for a field that holds a string otherwise.
Undef == "undefined"

\* callback(null, ...): no error.
NoError == 0
\* new Error('Oops! ...'): an error object that carries no status.
PlainError == 1
\* The statuses the remote store answers with.
NotFound == 404
BadRequest == 400
ServerError == 500

\* JavaScript truthiness of a string-valued field.
Truthy(v) == v \notin {Undef, ""}

EmptyMap == [k \in {} |-> Undef]

\* obj[key] of a JavaScript object held as a function on its own keys.
Get(obj, key) == IF key \in DOMAIN obj THEN obj[key] ELSE Undef

SetMax(S) == CHOOSE x \in S : \A y \in S : y <= x

\* ------------------------------------------------- locators (href <-> id)

\* A locator is the sequence of its tokens; "/" "?" "#" are tokens of their own.
Template == <<"https:", "/", "/", "api.stormpath.com", "/", "v1", "/", "accounts", "/">>

\* url.parse(href).pathname: what follows the host, up to the query or hash;
\* the whole string when it has no scheme.
HasScheme(s) == Len(s) >= 3 /\ s[1] = "https:" /\ s[2] = "/" /\ s[3] = "/"

PathStart(s) ==
  IF HasScheme(s)
  THEN LET later == {i \in 4..Len(s) : s[i] = "/"}
       IN IF later = {} THEN Len(s) + 1 ELSE CHOOSE i \in later : \A j \in later : i <= j
  ELSE 1

PathEnd(s) ==
  LET cut == {i \in PathStart(s)..Len(s) : s[i] \in {"?", "#"}}
  IN IF cut = {} THEN Len(s) ELSE (CHOOSE i \in cut : \A j \in cut : i <= j) - 1

Pathname(s) == SubSeq(s, PathStart(s), PathEnd(s))

\* A plausible slip: the first path segment instead of the last.
convertHrefToId_first(href) ==
  LET p == Pathname(href)
      slashes == {i \in 1..Len(p) : p[i] = "/"}
  IN IF slashes = {} THEN p
     ELSE SubSeq(p, 1, (CHOOSE i \in slashes : \A j \in slashes : i <= j) - 1)

\* A plausible slip: the index is one short, parts[parts.length - 2].
convertHrefToId_shortIndex(href) ==
  LET p == Pathname(href)
      slashes == {i \in 1..Len(p) : p[i] = "/"}
      last == SetMax(slashes)
      before == slashes \ {last}
  IN IF slashes = {} THEN <<>>
     ELSE SubSeq(p, (IF before = {} THEN 0 ELSE SetMax(before)) + 1, last - 1)

\* parts = pathname.split('/'); return parts[parts.length - 1]
convertHrefToId(href) ==
  LET p == Pathname(href)
      slashes == {i \in 1..Len(p) : p[i] = "/"}
  IN IF slashes = {} THEN p ELSE SubSeq(p, SetMax(slashes) + 1, Len(p))

\* A plausible slip: a template without the trailing separator.
convertIdToHref_noSlash(id) == SubSeq(Template, 1, Len(Template) - 1) \o id

\* 'https://api.stormpath.com/v1/accounts/' + id.toString()
convertIdToHref(id) == Template \o id

\* The n-th href the remote store hands out, and the id in it.
IdOf(n) == <<"u", ToString(n)>>
HrefOf(n) == Template \o IdOf(n)

\* ------------------------------------------------------------- strings

\* String.prototype.toLowerCase on the e-mail addresses of the model.
toLowerCase(s) == IF s = "Foo@Bar.com" THEN "foo@bar.com" ELSE s

\* ------------------------------------------------------------- accounts

standardFields == {"givenName", "surname", "middleName", "email"}

\* The href of the customData resource every account links to.
CustomDataHref == "customData"

VARIABLES
  store,     \* remote store: href -> account
  nCreated,  \* accounts the remote store has created so far
  op,        \* the verb in progress or last finished
  arg,       \* its argument
  pc,        \* "idle", "wait", "done", "crashed"
  pend,      \* fan-out: indices of the remote calls not yet answered
  tasks,     \* updateOrCreate: names of the remote calls not yet answered
  stage,     \* destroyAll: per href, "get" or "delete"
  results,   \* async.map's result array; the account objects a read answered
  acct,      \* the account object a callback works on
  hrefs,     \* destroyAll's userHrefs
  reqHref,   \* the href handed to client.getAccount
  fin,       \* the final callback of async.map/each/parallel has run
  resp,      \* err of the remote response handled last (NoError before any)
  cbs,       \* the deliveries to the caller's callback, in order
  pre,       \* the store when the verb was called
  prev,      \* the deliveries of the call before, when it was the same exists call
  client,       \* self.client: 0 when unset, else the n-th Client constructed
  application,  \* self.application: 0 when unset, else the app lookup k answered
  conns         \* the connect calls so far, in call order

\* The state the verbs work on, and the connection handle with its calls.
verbVars == <<store, nCreated, op, arg, pc, pend, tasks, stage, results, acct, hrefs,
              reqHref, fin, resp, cbs, pre, prev>>
connVars == <<client, application, conns>>

vars == <<store, nCreated, op, arg, pc, pend, tasks, stage, results, acct, hrefs,
          reqHref, fin, resp, cbs, pre, prev, client, application, conns>>

\* What the remote store keeps of createAccount(fields): the account fields it
\* knows, verbatim, and an empty customData resource.
NewAccount(f) ==
  [givenName |-> Get(f, "givenName"), surname |-> Get(f, "surname"),
   middleName |-> Get(f, "middleName"), email |-> Get(f, "email"),
   password |-> Get(f, "password"), customData |-> EmptyMap]

\* The account object the SDK hands to a callback: the stored fields (never the
\* password), the href, and customData: a bare link, or with expand: 'customData'
\* the link and the stored keys.  id is not a field the remote store knows.
Resource(h, a, expand) ==
  [href |-> h, id |-> <<>>, givenName |-> a.givenName, surname |-> a.surname,
   middleName |-> a.middleName, email |-> a.email, password |-> Undef,
   customData |-> IF expand THEN ("href" :> CustomDataHref) @@ a.customData
                  ELSE ("href" :> CustomDataHref)]

\* The account objects a read without expand may answer: whether the response
\* carries the customData link is the remote service's choice, and the
\* projection tests for it (if (account.customData)), so both are answers.
Responses(h, a) ==
  {Resource(h, a, FALSE), [Resource(h, a, FALSE) EXCEPT !.customData = EmptyMap]}

\* A plausible slip: the whole account object is handed back, password field
\* and customData included.
convertAccountToJson_whole(account) ==
  LET loc == IF account.id # <<>> THEN account.id ELSE account.href
  IN [id |-> convertHrefToId(loc), givenName |-> account.givenName,
      surname |-> account.surname, email |-> account.email,
      password |-> account.password, customData |-> account.customData]

\* A plausible slip: the e-mail is not projected.
convertAccountToJson_noEmail(account) ==
  LET loc == IF account.id # <<>> THEN account.id ELSE account.href
  IN [id |-> convertHrefToId(loc), givenName |-> account.givenName,
      surname |-> account.surname, email |-> Undef,
      customData |-> account.customData]

\* convertAccountToJson: customData only when the account object has it (an
\* account object without customData is held with an empty mapping).
convertAccountToJson(account) ==
  LET loc == IF account.id # <<>> THEN account.id ELSE account.href
  IN IF DOMAIN account.customData # {}
     THEN [id |-> convertHrefToId(loc), givenName |-> account.givenName,
           surname |-> account.surname, email |-> account.email,
           customData |-> account.customData]
     ELSE [id |-> convertHrefToId(loc), givenName |-> account.givenName,
           surname |-> account.surname, email |-> account.email]

\* A plausible slip: id is not kept out of the custom data.
updateAccount_withId(account, data) ==
  LET std(f) == IF Truthy(Get(data, f)) THEN data[f] ELSE account[f]
      extra == DOMAIN data \ (standardFields \cup {"password"})
  IN [account EXCEPT
        !.givenName = std("givenName"), !.surname = std("surname"),
        !.middleName = std("middleName"), !.email = std("email"),
        !.password = IF Truthy(Get(data, "password")) THEN data["password"] ELSE @,
        !.customData = [k \in (DOMAIN @) \cup extra |->
                          IF k \in extra THEN data[k] ELSE @[k]]]

\* A plausible slip: the incoming value is copied even when it is absent.
updateAccount_overwrite(account, data) ==
  [account EXCEPT
     !.givenName = Get(data, "givenName"), !.surname = Get(data, "surname"),
     !.middleName = Get(data, "middleName"), !.email = Get(data, "email"),
     !.customData = [k \in {} |-> Undef]]

\* updateAccount(account, data): data's fields are the keys of data other than id.
updateAccount(account, data) ==
  LET std(f) == IF Truthy(Get(data, f)) THEN data[f] ELSE account[f]
      extra == DOMAIN data \ (standardFields \cup {"password", "id"})
  IN [account EXCEPT
        !.givenName = std("givenName"), !.surname = std("surname"),
        !.middleName = std("middleName"), !.email = std("email"),
        !.password = IF Truthy(Get(data, "password")) THEN data["password"] ELSE @,
        !.customData = [k \in (DOMAIN @) \cup extra |->
                          IF k \in extra THEN data[k] ELSE @[k]]]

\* ---------------------------------------------------------- remote store

\* The errors a remote call can come back with (NoError: it succeeded).  A
\* lookup of an href the store does not hold never succeeds; any call can fail
\* with a client-class (below 500) or a server-class status.
GetAccountErrs(h) == IF h \in DOMAIN store THEN {NoError, BadRequest, ServerError}
                     ELSE {NotFound, ServerError}
GetAccountsErrs == {NoError, BadRequest, ServerError}
WriteErrs == {NoError, ServerError}

\* getAccounts(query): the accounts whose fields equal the query's conditions.
Matching(query) ==
  {h \in DOMAIN store :
     \A k \in DOMAIN query \ {"expand"} : Get(store[h], k) = query[k]}

\* The order the remote store enumerates them in: by creation.
Enumerate(S) == SelectSeq([n \in 1..nCreated |-> HrefOf(n)], LAMBDA h : h \in S)

\* ------------------------------------------------------------- inputs

userA == ("givenName" :> "Randall") @@ ("surname" :> "Degges") @@
         ("email" :> "Foo@Bar.com") @@ ("password" :> "pw")
userB == ("givenName" :> "Elon") @@ ("surname" :> "Musk") @@
         ("email" :> "emusk@spacex.com") @@ ("password" :> "pw2")

Users == {userA, userB}
Batches == {<<userA, userB>>, <<>>}

\* Ids a caller may pass: the ids the store hands out, and one it never does.
BogusId == <<"abc123">>
IdArgs == {IdOf(n) : n \in 1..MaxCreated} \cup {BogusId}

\* ------------------------------------------------------------- connect

\* Number of connect calls in one behaviour.
MaxConnects == 4

\* The errors getApplication can come back with (NoError: the application).
GetApplicationErrs == {NoError, NotFound, ServerError}

\* The connector as its constructor leaves it: no handle, no connect call.
Constructed ==
  /\ client = 0
  /\ application = 0
  /\ conns = <<>>

\* initialize(dataSource, callback) has run: its connect call, the first and
\* only one so far, has set both handles and answered the callback.
Initialized ==
  /\ client = 1
  /\ application = 1
  /\ conns = <<[at |-> "done", lookups |-> 1, late |-> FALSE,
                cbs |-> <<[err |-> NoError, val |-> 1]>>]>>

\* No verb has been called and the remote store is empty.
VerbsIdle ==
  /\ store = EmptyMap
  /\ nCreated = 0
  /\ op = "none"
  /\ arg = <<>>
  /\ pc = "idle"
  /\ pend = {}
  /\ tasks = {}
  /\ stage = <<>>
  /\ results = <<>>
  /\ acct = <<>>
  /\ hrefs = <<>>
  /\ reqHref = <<>>
  /\ fin = FALSE
  /\ resp = NoError
  /\ cbs = <<>>
  /\ pre = EmptyMap
  /\ prev = <<>>

\* Some connect call has already been answered with a client handle.
Succeeded ==
  \E j \in 1..Len(conns) : conns[j].cbs # <<>> /\ conns[j].cbs[1].err = NoError

\* A plausible slip: the handle is never reused.
HasHandle_never == FALSE

\* A plausible slip: the handle is tested by the client, which the call itself
\* sets, instead of by the application.
HasHandle_client == client # 0

\* if (self.application)
HasHandle == application # 0

\* connect(callback).  With an application handle the callback is deferred to
\* the next tick; without one a new Client replaces self.client and
\* getApplication is issued.  `late` notes a call made after a connect succeeded.
ConnectCall ==
  /\ Len(conns) < MaxConnects
  /\ IF HasHandle
     THEN /\ conns' = Append(conns, [at |-> "tick", lookups |-> 0, late |-> Succeeded,
                                       cbs |-> <<>>])
          /\ UNCHANGED client
     ELSE /\ client' = client + 1
          /\ conns' = Append(conns, [at |-> "lookup", lookups |-> 1, late |-> Succeeded,
                                       cbs |-> <<>>])
  /\ UNCHANGED application
  /\ UNCHANGED verbVars

\* The process.nextTick callback of connect call k: callback(null, self.client).
ConnectTick(k) ==
  /\ k \in 1..Len(conns) /\ conns[k].at = "tick"
  /\ conns' = [conns EXCEPT ![k].at = "done",
                            ![k].cbs = Append(@, [err |-> NoError, val |-> client])]
  /\ UNCHANGED <<client, application>>
  /\ UNCHANGED verbVars

\* The getApplication callback of connect call k: callback(err), or the app
\* becomes self.application and callback(null, self.client).
ConnectAnswered(k) ==
  /\ k \in 1..Len(conns) /\ conns[k].at = "lookup"
  /\ \E err \in GetApplicationErrs :
       IF err # NoError
       THEN /\ conns' = [conns EXCEPT ![k].at = "done",
                                      ![k].cbs = Append(@, [err |-> err, val |-> 0])]
            /\ UNCHANGED application
       ELSE /\ application' = k
            /\ conns' = [conns EXCEPT ![k].at = "done",
                                      ![k].cbs = Append(@, [err |-> NoError, val |-> client])]
  /\ UNCHANGED client
  /\ UNCHANGED verbVars

ConnectNext ==
  \/ ConnectCall
  \/ \E k \in 1..MaxConnects : ConnectTick(k)
  \/ \E k \in 1..MaxConnects : ConnectAnswered(k)

\* ------------------------------------------------------------- verbs

\* The data source after initialize(dataSource, callback): connected, no verb
\* called yet.
Init == VerbsIdle /\ Initialized

\* The connector after its construction, before any connect call.
ConnectInit == VerbsIdle /\ Constructed

\* The connector is ready for the next verb.
Ready == pc \in {"idle", "done"}

\* The verb `o` is called with `a` on the connected data source: the locals of
\* the previous call are gone.
Begin(o, a) ==
  /\ Ready
  /\ client # 0 /\ application # 0
  /\ op' = o
  /\ arg' = a
  /\ pre' = store
  /\ fin' = FALSE
  /\ resp' = NoError
  /\ prev' = IF o = "exists" /\ op = "exists" /\ pc = "done" /\ a = arg THEN cbs ELSE <<>>
  /\ UNCHANGED <<store, nCreated>>
  /\ UNCHANGED connVars

\* A plausible slip: a lookup takes the accounts out of the store.
Read_taken(s) == [h \in {} |-> s[h]]

\* getAccount, getAccounts and authenticateAccount are reads: the remote store
\* after the call is the store before it.
Read(s) == s

\* The locals of the handler at its start.
Locals(p, t, st, r, a, h, q) ==
  /\ pend' = p /\ tasks' = t /\ stage' = st /\ results' = r
  /\ acct' = a /\ hrefs' = h /\ reqHref' = q

Deliver(err, val) == Append(cbs, [err |-> err, val |-> val])

\* ------------------------------------------------------------- create

\* create(model, data, callback), data an object: createAccount is issued.
CreateCall(d) ==
  /\ Begin("create", d)
  /\ pc' = "wait"
  /\ cbs' = <<>>
  /\ Locals({1}, {}, <<>>, <<>>, <<>>, <<>>, <<>>)

\* The createAccount callback of the single create.
CreateDone ==
  /\ op = "create" /\ pc = "wait"
  /\ \E err \in WriteErrs : resp' = err /\ (
       IF err = NoError
       THEN /\ nCreated < MaxCreated
            /\ nCreated' = nCreated + 1
            /\ store' = (HrefOf(nCreated + 1) :> NewAccount(arg)) @@ store
            /\ cbs' = Deliver(NoError, convertHrefToId(HrefOf(nCreated + 1)))
       ELSE /\ cbs' = Deliver(err, Undef)
            /\ UNCHANGED <<store, nCreated>>)
  /\ pc' = "done"
  /\ pend' = {}
  /\ UNCHANGED <<op, arg, tasks, stage, results, acct, hrefs, reqHref, fin, pre>>
  /\ UNCHANGED <<prev, connVars>>

\* A plausible slip: results collected in completion order.
MapResult_push(res, i, v) ==
  LET free == {j \in 1..Len(res) : res[j] = <<>>}
  IN [res EXCEPT ![CHOOSE j \in free : \A k \in free : j <= k] = v]

\* async.map keeps the result of the i-th item at index i.
MapResult(res, i, v) == [res EXCEPT ![i] = v]

\* A plausible slip: the final callback drops the error.
MapFailed_dropped(err) == [err |-> NoError, val |-> Undef]

\* The final callback of async.map on an error: if (err) return callback(err).
MapFailed(err) == [err |-> err, val |-> Undef]

\* create(model, data, callback), data an array: async.map issues one
\* createAccount per item; with no item its final callback runs at once.
CreateBatchCall(ds) ==
  /\ Begin("createBatch", ds)
  /\ Locals(1..Len(ds), {}, <<>>, [i \in 1..Len(ds) |-> <<>>], <<>>, <<>>, <<>>)
  /\ IF Len(ds) = 0
     THEN pc' = "done" /\ cbs' = <<[err |-> NoError, val |-> <<>>]>>
     ELSE pc' = "wait" /\ cbs' = <<>>

\* The createAccount callback of item i, in whatever order the responses arrive.
\* async.map runs the final callback on the first error, or when every item
\* has a result; later completions no longer reach the caller.
CreateItemDone(i) ==
  /\ op = "createBatch" /\ pc = "wait" /\ i \in pend
  /\ pend' = pend \ {i}
  /\ pc' = IF pend' = {} THEN "done" ELSE "wait"
  /\ \E err \in WriteErrs : resp' = err /\ (
       IF err = NoError
       THEN /\ nCreated < MaxCreated
            /\ nCreated' = nCreated + 1
            /\ store' = (HrefOf(nCreated + 1) :> NewAccount(arg[i])) @@ store
            /\ results' = MapResult(results, i, convertHrefToId(HrefOf(nCreated + 1)))
            /\ IF ~fin /\ pend' = {}
               THEN cbs' = Deliver(NoError, results') /\ fin' = TRUE
               ELSE UNCHANGED <<cbs, fin>>
       ELSE /\ UNCHANGED <<store, nCreated, results>>
            /\ IF ~fin
               THEN cbs' = Append(cbs, MapFailed(err)) /\ fin' = TRUE
               ELSE UNCHANGED <<cbs, fin>>)
  /\ UNCHANGED <<op, arg, tasks, stage, acct, hrefs, reqHref, pre>>
  /\ UNCHANGED <<prev, connVars>>

\* ------------------------------------------------------------- find

\* find(model, id, callback): client.getAccount(convertIdToHref(id), ...).
FindCall(id) ==
  /\ Begin("find", id)
  /\ pc' = "wait"
  /\ cbs' = <<>>
  /\ Locals({}, {}, <<>>, <<>>, <<>>, <<>>, convertIdToHref(id))

\* The getAccount callback of find.
FindDone ==
  /\ op = "find" /\ pc = "wait"
  /\ \E err \in GetAccountErrs(reqHref) : resp' = err /\ (
       IF err # NoError
       THEN cbs' = Deliver(err, Undef) /\ UNCHANGED results
       ELSE \E account \in Responses(reqHref, store[reqHref]) :
              /\ results' = <<account>>
              /\ cbs' = Deliver(NoError, convertAccountToJson(account)))
  /\ pc' = "done"
  /\ store' = Read(store)
  /\ UNCHANGED <<nCreated, op, arg, pend, tasks, stage, acct, hrefs,
                 reqHref, fin, pre>>
  /\ UNCHANGED <<prev, connVars>>

\* ------------------------------------------------------------- exists

\* exists(model, id, callback): client.getAccount is called with the callback
\* alone: no href is handed over.  What the SDK makes of such a call is not
\* fixed by the connector: it may throw at once, or answer the callback.
ExistsCall(id) ==
  /\ Begin("exists", id)
  /\ cbs' = <<>>
  /\ Locals({}, {}, <<>>, <<>>, <<>>, <<>>, <<>>)
  /\ \E thrown \in BOOLEAN : pc' = IF thrown THEN "crashed" ELSE "wait"

\* A plausible slip: the condition and the first branch change places
\* (err ? false : true).
ExistsAnswer_byErr(err) == IF err # NoError THEN FALSE ELSE TRUE

\* callback(null, false ? err : true)
ExistsAnswer(err) == IF FALSE THEN err ELSE TRUE

\* The getAccount callback of exists; the response does not depend on the id.
ExistsDone ==
  /\ op = "exists" /\ pc = "wait"
  /\ \E err \in {NoError, NotFound, ServerError} : resp' = err /\ (
       cbs' = IF err # NoError /\ err >= 500 THEN Deliver(err, Undef)
              ELSE Deliver(NoError, ExistsAnswer(err)))
  /\ pc' = "done"
  /\ store' = Read(store)
  /\ UNCHANGED <<nCreated, op, arg, pend, tasks, stage, results, acct, hrefs,
                 reqHref, fin, pre>>
  /\ UNCHANGED <<prev, connVars>>

\* ------------------------------------------------------------- filters

searchableAttrs == {"givenName", "middleName", "surname", "username", "email"}

\* A where value is [t: its typeof ("null" for null), v: its keys, each with
\* its condition [t: typeof, v: value]].  A filter is [where, include, limit];
\* an absent property is undefined.  A limit is [t: typeof, v: the number, or
\* the number a string spells].
NoWhere == [t |-> "undefined", v |-> EmptyMap]
NoLimit == [t |-> "undefined", v |-> 0]
Num(n) == [t |-> "number", v |-> n]
Where(conds) == [t |-> "object", v |-> conds]
Str(x) == [t |-> "string", v |-> x]

\* A plausible slip: the key is not looked up in searchableAttrs.
buildWhere_anyKey(where) ==
  IF where.t = "null" \/ where.t # "object" THEN EmptyMap
  ELSE LET keep == {k \in DOMAIN where.v : where.v[k].t = "string"}
       IN [k \in keep |-> where.v[k].v]

\* A plausible slip: the type of the condition is not looked at.
buildWhere_anyType(where) ==
  IF where.t = "null" \/ where.t # "object" THEN EmptyMap
  ELSE LET keep == {k \in DOMAIN where.v : k \in searchableAttrs}
       IN [k \in keep |-> where.v[k].v]

\* buildWhere(where)
buildWhere(where) ==
  IF where.t = "null" \/ where.t # "object" THEN EmptyMap
  ELSE LET keep == {k \in DOMAIN where.v :
                      where.v[k].t = "string" /\ k \in searchableAttrs}
       IN [k \in keep |-> where.v[k].v]

\* filter.where as a condition: undefined and null are falsy.
HasWhere(filter) == filter.where.t \notin {"undefined", "null"}

\* query = {}; if (filter && filter.where) query = buildWhere(filter.where)
QueryOf(filter) == IF HasWhere(filter) THEN buildWhere(filter.where) ELSE EmptyMap

NoFilter == [where |-> NoWhere, include |-> Undef, limit |-> NoLimit]
Filters ==
  {NoFilter,
   [where |-> Where("givenName" :> Str("Randall")), include |-> Undef, limit |-> NoLimit],
   [where |-> Where("nick" :> Str("rdegges")), include |-> Undef, limit |-> NoLimit]}

\* ------------------------------------------------------------- count

\* count(model, callback, filter): application.getAccounts(query, ...).
CountCall(filter) ==
  /\ Begin("count", filter)
  /\ pc' = "wait"
  /\ cbs' = <<>>
  /\ Locals({}, {}, <<>>, <<>>, <<>>, <<>>, <<>>)

\* accounts.size of the collection getAccounts(query) answers with.
CountSize(query) == Cardinality(Matching(query))

\* The getAccounts callback of count.
CountDone ==
  /\ op = "count" /\ pc = "wait"
  /\ \E err \in GetAccountsErrs : resp' = err /\ (
       cbs' = IF err # NoError THEN Deliver(err, Undef)
              ELSE Deliver(NoError, CountSize(QueryOf(arg))))
  /\ pc' = "done"
  /\ store' = Read(store)
  /\ UNCHANGED <<nCreated, op, arg, pend, tasks, stage, results, acct, hrefs,
                 reqHref, fin, pre>>
  /\ UNCHANGED <<prev, connVars>>

\* ------------------------------------------------------------- destroyAll

\* destroyAll(model, filter, callback): application.getAccounts(query, ...).
DestroyAllCall(filter) ==
  /\ Begin("destroyAll", filter)
  /\ pc' = "enum"
  /\ cbs' = <<>>
  /\ Locals({}, {}, <<>>, <<>>, <<>>, <<>>, <<>>)

\* A plausible slip: the accounts are counted one short.
TotalUsers_short(userHrefs) == IF Len(userHrefs) = 0 THEN 0 ELSE Len(userHrefs) - 1

\* totalUsers += 1 for every account pushed on userHrefs.
TotalUsers(userHrefs) == Len(userHrefs)

\* The getAccounts callback of destroyAll: err is not looked at, so on an error
\* accounts.each is a call on undefined and the callback throws.  Otherwise the
\* hrefs are collected and async.each issues one getAccount per href; with no
\* href its final callback runs at once.
DestroyAllEnumerated ==
  /\ op = "destroyAll" /\ pc = "enum"
  /\ \E err \in GetAccountsErrs : resp' = err /\ (
       IF err # NoError
       THEN /\ pc' = "crashed"
            /\ UNCHANGED <<hrefs, pend, stage, cbs, fin>>
       ELSE LET userHrefs == Enumerate(Matching(QueryOf(arg))) IN
            /\ hrefs' = userHrefs
            /\ pend' = 1..Len(userHrefs)
            /\ stage' = [i \in 1..Len(userHrefs) |-> "get"]
            /\ IF Len(userHrefs) = 0
               THEN /\ pc' = "done"
                    /\ cbs' = Deliver(NoError, TotalUsers(userHrefs))
                    /\ fin' = TRUE
               ELSE /\ pc' = "wait"
                    /\ UNCHANGED <<cbs, fin>>)
  /\ UNCHANGED <<store, nCreated, op, arg, tasks, results, acct, reqHref, pre>>
  /\ UNCHANGED <<prev, connVars>>

\* The getAccount callback of href i: cb(err), or account.delete is issued.
DestroyGetDone(i) ==
  /\ op = "destroyAll" /\ pc = "wait" /\ i \in pend /\ stage[i] = "get"
  /\ \E err \in GetAccountErrs(hrefs[i]) : resp' = err /\ (
       IF err # NoError
       THEN /\ pend' = pend \ {i}
            /\ IF ~fin THEN cbs' = Deliver(err, Undef) /\ fin' = TRUE
               ELSE UNCHANGED <<cbs, fin>>
            /\ UNCHANGED stage
       ELSE /\ stage' = [stage EXCEPT ![i] = "delete"]
            /\ UNCHANGED <<pend, cbs, fin>>)
  /\ pc' = IF pend' = {} THEN "done" ELSE "wait"
  /\ UNCHANGED <<store, nCreated, op, arg, tasks, results, acct, hrefs, reqHref, pre>>
  /\ UNCHANGED <<prev, connVars>>

\* A plausible slip: the final callback runs when the first delete is done.
EachFinished_early(remaining) == TRUE

\* async.each runs its final callback without error when no item is left.
EachFinished(remaining) == remaining = {}

\* The account.delete callback of href i; async.each runs the final callback on
\* the first error, or when every href is done.  stage notes a completed delete.
DestroyDeleteDone(i) ==
  /\ op = "destroyAll" /\ pc = "wait" /\ i \in pend /\ stage[i] = "delete"
  /\ pend' = pend \ {i}
  /\ pc' = IF pend' = {} THEN "done" ELSE "wait"
  /\ \E err \in WriteErrs : resp' = err /\ (
       IF err # NoError
       THEN /\ IF ~fin THEN cbs' = Deliver(err, Undef) /\ fin' = TRUE
               ELSE UNCHANGED <<cbs, fin>>
            /\ UNCHANGED <<store, stage>>
       ELSE /\ store' = [h \in DOMAIN store \ {hrefs[i]} |-> store[h]]
            /\ stage' = [stage EXCEPT ![i] = "deleted"]
            /\ IF ~fin /\ EachFinished(pend')
               THEN cbs' = Deliver(NoError, TotalUsers(hrefs)) /\ fin' = TRUE
               ELSE UNCHANGED <<cbs, fin>>)
  /\ UNCHANGED <<nCreated, op, arg, tasks, results, acct, hrefs, reqHref, pre>>
  /\ UNCHANGED <<prev, connVars>>

\* ------------------------------------------------------------- authenticate

\* The credentials authenticate is called with.
AuthInputs ==
  {[login |-> l, password |-> w] : l \in {"Foo@Bar.com", "nobody@example.com"},
                                   w \in {"pw", "bad"}}

\* The accounts the remote credential check accepts the credentials for.
Holders(cred) ==
  {h \in DOMAIN store :
     store[h].email = cred.login /\ store[h].password = cred.password}

\* The errors authenticateAccount can come back with.
AuthenticateErrs(cred) ==
  IF Holders(cred) # {} THEN {NoError, ServerError} ELSE {BadRequest, ServerError}

\* A plausible slip: the failure is replaced by an error of the connector's own.
AuthFailed_generic(err) == [err |-> PlainError, val |-> Undef]

\* if (err) return callback(err), in both callbacks of authenticate.
AuthFailed(err) == [err |-> err, val |-> Undef]

\* authenticate(model, login, password, callback): authenticateAccount is issued.
AuthenticateCall(cred) ==
  /\ Begin("authenticate", cred)
  /\ pc' = "wait"
  /\ cbs' = <<>>
  /\ Locals({}, {}, <<>>, <<>>, <<>>, <<>>, <<>>)

\* The authenticateAccount callback: callback(err), or response.getAccount is
\* issued for the account the response links to.
AuthenticateChecked ==
  /\ op = "authenticate" /\ pc = "wait"
  /\ \E err \in AuthenticateErrs(arg) : resp' = err /\ (
       IF err # NoError
       THEN /\ cbs' = Append(cbs, AuthFailed(err))
            /\ pc' = "done"
            /\ UNCHANGED reqHref
       ELSE /\ \E h \in Holders(arg) : reqHref' = h
            /\ pc' = "resolve"
            /\ UNCHANGED cbs)
  /\ store' = Read(store)
  /\ UNCHANGED <<nCreated, op, arg, pend, tasks, stage, results, acct, hrefs,
                 fin, pre>>
  /\ UNCHANGED <<prev, connVars>>

\* The response.getAccount callback: callback(err), or the projected account.
AuthenticateResolved ==
  /\ op = "authenticate" /\ pc = "resolve"
  /\ \E err \in GetAccountErrs(reqHref) : resp' = err /\ (
       IF err # NoError
       THEN cbs' = Append(cbs, AuthFailed(err)) /\ UNCHANGED results
       ELSE \E account \in Responses(reqHref, store[reqHref]) :
              /\ results' = <<account>>
              /\ cbs' = Deliver(NoError, convertAccountToJson(account)))
  /\ pc' = "done"
  /\ store' = Read(store)
  /\ UNCHANGED <<nCreated, op, arg, pend, tasks, stage, acct, hrefs,
                 reqHref, fin, pre>>
  /\ UNCHANGED <<prev, connVars>>

\* ------------------------------------------------------------- save

\* The records save is called with: an id, and fields no account has.
SaveInputs ==
  {[id |-> i, f |-> g] : i \in {IdOf(1), BogusId},
                         g \in {("surname" :> "Smith"), EmptyMap}}

\* A plausible slip: the acknowledgement is sent without looking at err.
SaveAnswer_ack(err) == [err |-> NoError, val |-> TRUE]

\* if (err) return callback(err); callback && callback(null, true)
SaveAnswer(err) ==
  IF err # NoError THEN [err |-> err, val |-> Undef] ELSE [err |-> NoError, val |-> TRUE]

\* save(model, data, callback): client.getAccount(convertIdToHref(data.id), ...).
SaveCall(data) ==
  /\ Begin("save", data)
  /\ pc' = "wait"
  /\ cbs' = <<>>
  /\ Locals({}, {}, <<>>, <<>>, <<>>, <<>>, convertIdToHref(data.id))

\* The getAccount callback of save; the account it is handed is not used.
SaveDone ==
  /\ op = "save" /\ pc = "wait"
  /\ \E err \in GetAccountErrs(reqHref) : resp' = err /\ (
       cbs' = Append(cbs, SaveAnswer(err)))
  /\ pc' = "done"
  /\ UNCHANGED <<store, nCreated, op, arg, pend, tasks, stage, results, acct, hrefs,
                 reqHref, fin, pre>>
  /\ UNCHANGED <<prev, connVars>>

\* ------------------------------------------------------------- all

\* The filters all is called with: the allow-listed givenName next to a custom
\* field; a non-string condition next to a string one, with an include; a where
\* that is a string, with a limit of 1; a where that is null, with a limit of
\* 0; no where with a limit of 2, and with a limit that is the string '1'.
AllFilters ==
  {[where |-> Where(("givenName" :> Str("Randall")) @@ ("customField" :> Str("x"))),
    include |-> Undef, limit |-> NoLimit],
   [where |-> Where(("username" :> [t |-> "object", v |-> "like"]) @@
                    ("email" :> Str("emusk@spacex.com"))),
    include |-> "customData", limit |-> NoLimit],
   [where |-> [t |-> "string", v |-> EmptyMap], include |-> Undef, limit |-> Num(1)],
   [where |-> [t |-> "null", v |-> EmptyMap], include |-> Undef, limit |-> Num(0)],
   [where |-> NoWhere, include |-> Undef, limit |-> Num(2)],
   [where |-> NoWhere, include |-> Undef, limit |-> [t |-> "string", v |-> 1]],
   [where |-> Where(("nick" :> Str("rdegges")) @@
                    ("email" :> [t |-> "object", v |-> "like"])),
    include |-> Undef, limit |-> NoLimit]}

\* The query of all: if (filter.include) query.expand = expand ? expand : undefined
AllQuery(filter) ==
  IF Truthy(filter.include) THEN ("expand" :> filter.include) @@ QueryOf(filter)
  ELSE QueryOf(filter)

\* limit = 0; if (filter.limit) if (typeof filter.limit === 'number') limit = ...
\* (a string that spells a number is truthy, and not a number).
LimitOf(filter) ==
  IF filter.limit.t = "number" /\ filter.limit.v # 0 THEN filter.limit.v ELSE 0

\* A plausible slip: the comparison lets one account more through.
Limited_oneMore(accs, limit) ==
  IF limit = 0 \/ Len(accs) <= limit THEN accs ELSE SubSeq(accs, 1, limit + 1)

\* accounts.each visits every account: if (!limit || (limit && accs.length <
\* limit)) accs.push(...); cb().  What is pushed of the accounts visited.
Limited(accs, limit) ==
  IF limit = 0 \/ Len(accs) < limit THEN accs ELSE SubSeq(accs, 1, limit)

\* all(model, filter, callback): application.getAccounts(query, ...).
AllCall(filter) ==
  /\ Begin("all", filter)
  /\ pc' = "wait"
  /\ cbs' = <<>>
  /\ Locals({}, {}, <<>>, <<>>, <<>>, <<>>, <<>>)

\* The getAccounts callback of all: err is not looked at, so on an error
\* accounts.each is a call on undefined and the callback throws.  Otherwise
\* every account is visited (hrefs notes them), and projected in enumeration
\* order up to the limit.
AllDone ==
  /\ op = "all" /\ pc = "wait"
  /\ \E err \in GetAccountsErrs : resp' = err /\ (
       IF err # NoError
       THEN /\ pc' = "crashed"
            /\ UNCHANGED <<cbs, hrefs, results>>
       ELSE LET query == AllQuery(arg)
                visited == Enumerate(Matching(query))
                found == Limited(visited, LimitOf(arg))
            IN \E linked \in (IF "expand" \in DOMAIN query THEN {TRUE} ELSE BOOLEAN) :
                 LET accounts == [i \in 1..Len(found) |->
                       IF linked
                       THEN Resource(found[i], store[found[i]], "expand" \in DOMAIN query)
                       ELSE [Resource(found[i], store[found[i]], FALSE)
                               EXCEPT !.customData = EmptyMap]]
                 IN /\ pc' = "done"
                    /\ hrefs' = visited
                    /\ results' = accounts
                    /\ cbs' = Deliver(NoError,
                                      [i \in 1..Len(found) |->
                                         convertAccountToJson(accounts[i])]))
  /\ store' = Read(store)
  /\ UNCHANGED <<nCreated, op, arg, pend, tasks, stage, acct,
                 reqHref, fin, pre>>
  /\ UNCHANGED <<prev, connVars>>

\* ------------------------------------------------------------- updateOrCreate

\* The records updateOrCreate is called with: id (empty when absent) and fields.
UocFields ==
  {("email" :> "john@gmail.com"), ("email" :> "foo@bar.com"),
   ("nick" :> "rdegges")}
UocIds == {IdOf(1), BogusId, <<>>}
UocInputs == {[id |-> i, f |-> g] : i \in UocIds, g \in UocFields}

HasId(data) == data.id # <<>>
HasEmail(data) == Truthy(Get(data.f, "email"))

\* The remote calls updateOrCreate issues before it returns: createAccount
\* ("stray") when the record has neither id nor email, then the lookup by id
\* ("get") or by e-mail ("list").
UocIssued(data) ==
  (IF ~(HasId(data) \/ HasEmail(data)) THEN {"stray"} ELSE {}) \cup
  (IF HasId(data) THEN {"get"} ELSE IF HasEmail(data) THEN {"list"} ELSE {})

\* updateOrCreate(model, data, callback).  With neither id nor email the first
\* if issues createAccount and the last else calls back with an error at once.
UpdateOrCreateCall(data) ==
  /\ Begin("updateOrCreate", data)
  /\ Locals({}, UocIssued(data), <<>>, <<>>, <<>>, <<>>,
            IF HasId(data) THEN convertIdToHref(data.id) ELSE <<>>)
  /\ cbs' = IF HasId(data) \/ HasEmail(data) THEN <<>>
            ELSE <<[err |-> PlainError, val |-> Undef]>>
  /\ pc' = "wait"

\* The callback of a createAccount that updateOrCreate issued (task t).
UocCreated(t) ==
  /\ op = "updateOrCreate" /\ pc = "wait" /\ t \in tasks
  /\ tasks' = tasks \ {t}
  /\ pc' = IF tasks' = {} THEN "done" ELSE "wait"
  /\ \E err \in WriteErrs : resp' = err /\ (
       IF err = NoError
       THEN LET h == HrefOf(nCreated + 1) IN
            /\ nCreated < MaxCreated
            /\ nCreated' = nCreated + 1
            /\ store' = (h :> NewAccount(arg.f)) @@ store
            /\ \E account \in Responses(h, NewAccount(arg.f)) :
                 /\ results' = <<account>>
                 /\ cbs' = Deliver(NoError, convertAccountToJson(account))
       ELSE /\ cbs' = Deliver(err, Undef)
            /\ UNCHANGED <<store, nCreated, results>>)
  /\ UNCHANGED <<op, arg, pend, stage, acct, hrefs, reqHref, fin, pre>>
  /\ UNCHANGED <<prev, connVars>>

\* The callback of the createAccount issued for a record without id and email.
UocStrayCreateDone == UocCreated("stray")

\* The callback of the createAccount issued after a lookup found no account.
UocCreateDone == UocCreated("create")

\* The customData save is issued when the object has more keys than its href.
CustomDataDirty(account) == Cardinality(DOMAIN account.customData) > 1

\* The getAccount callback of the id branch.
UocGetAccountDone ==
  /\ op = "updateOrCreate" /\ pc = "wait" /\ "get" \in tasks
  /\ \E err \in GetAccountErrs(reqHref) : resp' = err /\ (
       IF err # NoError /\ err >= 500
       THEN /\ cbs' = Deliver(err, Undef)
            /\ tasks' = tasks \ {"get"}
            /\ UNCHANGED <<acct, fin>>
       ELSE IF err = NoError
       THEN LET merged == updateAccount(Resource(reqHref, store[reqHref], TRUE), arg.f)
                account == [merged EXCEPT !.id = arg.id]
            IN /\ acct' = account
               /\ tasks' = (tasks \ {"get"}) \cup {"save"} \cup
                           (IF CustomDataDirty(account) THEN {"cd"} ELSE {})
               /\ UNCHANGED <<cbs, fin>>
       ELSE /\ tasks' = (tasks \ {"get"}) \cup {"create"}
            /\ UNCHANGED <<acct, cbs, fin>>)
  /\ pc' = IF tasks' = {} THEN "done" ELSE "wait"
  /\ UNCHANGED <<store, nCreated, op, arg, pend, stage, results, hrefs, reqHref, pre>>
  /\ UNCHANGED <<prev, connVars>>

\* acc.email === data.email.toLowerCase()
EmailMatches(acc, data) == acc.email = toLowerCase(data["email"])

\* The account the accounts.each loop of the e-mail branch ends with: the last
\* enumerated account whose e-mail matches, or none (an empty sequence).
FoundByEmail(data) ==
  LET hit == SelectSeq(Enumerate(DOMAIN store), LAMBDA h : EmailMatches(store[h], data))
  IN IF hit = <<>> THEN <<>> ELSE hit[Len(hit)]

\* The getAccounts callback of the e-mail branch.  A 5xx error is handed to the
\* caller; any other error is not looked at, so accounts.each is a call on
\* undefined and the callback throws.
UocGetAccountsDone ==
  /\ op = "updateOrCreate" /\ pc = "wait" /\ "list" \in tasks
  /\ \E err \in GetAccountsErrs : resp' = err /\ (
       IF err # NoError /\ err >= 500
       THEN /\ cbs' = Deliver(err, Undef)
            /\ tasks' = {}
            /\ pc' = "done"
            /\ UNCHANGED <<acct, fin>>
       ELSE IF err # NoError
       THEN /\ pc' = "crashed"
            /\ tasks' = {}
            /\ UNCHANGED <<acct, cbs, fin>>
       ELSE LET h == FoundByEmail(arg.f) IN
            /\ pc' = "wait"
            /\ IF h # <<>>
               THEN /\ acct' = updateAccount(Resource(h, store[h], TRUE), arg.f)
                    /\ tasks' = {"save", "cd"}
               ELSE /\ tasks' = {"create"}
                    /\ UNCHANGED acct
            /\ UNCHANGED <<cbs, fin>>)
  /\ UNCHANGED <<store, nCreated, op, arg, pend, stage, results, hrefs, reqHref, pre>>
  /\ UNCHANGED <<prev, connVars>>

\* What account.save() writes: the account's own fields; the password only when
\* one was set on the object.
SavedAccount(old, account) ==
  [old EXCEPT !.givenName = account.givenName, !.surname = account.surname,
              !.middleName = account.middleName, !.email = account.email,
              !.password = IF Truthy(account.password) THEN account.password ELSE @]

\* What account.customData.save() writes: every key but the href.
SavedCustomData(old, account) ==
  [old EXCEPT !.customData =
     [k \in DOMAIN account.customData \ {"href"} |-> account.customData[k]]]

\* A plausible slip: one write carries the account and its custom data.
Written_both(old, account, t) == SavedCustomData(SavedAccount(old, account), account)

\* The two writes are requests of their own: t is "save" or "cd".
Written(old, account, t) ==
  IF t = "save" THEN SavedAccount(old, account) ELSE SavedCustomData(old, account)

\* The callback of one of the two parallel saves (t is "save" or "cd"):
\* async.parallel runs the final callback on the first error, or when both
\* tasks are done.  stage notes how each write was answered.
UocWritten(t) ==
  /\ op = "updateOrCreate" /\ pc = "wait" /\ t \in tasks
  /\ tasks' = tasks \ {t}
  /\ pc' = IF tasks' = {} THEN "done" ELSE "wait"
  /\ \E err \in WriteErrs : resp' = err /\ stage' = (t :> err) @@ stage /\ (
       IF err # NoError
       THEN /\ IF ~fin THEN cbs' = Deliver(err, Undef) /\ fin' = TRUE
               ELSE UNCHANGED <<cbs, fin>>
            /\ UNCHANGED <<store, results>>
       ELSE /\ store' = [store EXCEPT ![acct.href] = Written(@, acct, t)]
            /\ IF ~fin /\ tasks' = {}
               THEN /\ cbs' = Deliver(NoError, convertAccountToJson(acct))
                    /\ results' = <<acct>>
                    /\ fin' = TRUE
               ELSE UNCHANGED <<cbs, fin, results>>)
  /\ UNCHANGED <<nCreated, op, arg, pend, acct, hrefs, reqHref, pre>>
  /\ UNCHANGED <<prev, connVars>>

\* The account.save callback.
UocSaveDone == UocWritten("save")

\* The account.customData.save callback.
UocCustomDataSaveDone == UocWritten("cd")

\* ------------------------------------------------------------- updateAll

\* What updateAll is called with: a filter and the field map.
UpdateAllInputs ==
  {[filter |-> [where |-> Where("email" :> Str("john@gmail.com")),
                include |-> Undef, limit |-> NoLimit],
    data |-> ("email" :> "foo@bar.com")],
   [filter |-> NoFilter, data |-> EmptyMap],
   [filter |-> [where |-> Where("nick" :> Str("rdegges")),
                include |-> Undef, limit |-> NoLimit],
    data |-> ("email" :> "foo@bar.com")]}

\* A plausible slip: a key the account already has is not copied.
Overlay_absentOnly(account, data) ==
  [k \in DOMAIN account \cup DOMAIN data |->
     IF k \in DOMAIN account THEN account[k] ELSE data[k]]

\* for (var key in data) account[key] = data[key]
Overlay(account, data) ==
  [k \in DOMAIN account \cup DOMAIN data |->
     IF k \in DOMAIN data THEN data[k] ELSE account[k]]

\* count: one for every save that has succeeded (stage notes them).
Saved == {i \in 1..Len(stage) : stage[i] = "saved"}

\* updateAll(model, filter, data, callback): application.getAccounts(query, ...).
UpdateAllCall(in) ==
  /\ Begin("updateAll", in)
  /\ pc' = "enum"
  /\ cbs' = <<>>
  /\ Locals({}, {}, <<>>, <<>>, <<>>, <<>>, <<>>)

\* The getAccounts callback of updateAll: callback(err), or accounts.each
\* overlays the field map on every account and issues its save; with no
\* account its final callback runs at once.
UpdateAllEnumerated ==
  /\ op = "updateAll" /\ pc = "enum"
  /\ \E err \in GetAccountsErrs : resp' = err /\ (
       IF err # NoError
       THEN /\ pc' = "done"
            /\ cbs' = Deliver(err, Undef)
            /\ UNCHANGED <<hrefs, pend, stage, fin>>
       ELSE LET found == Enumerate(Matching(QueryOf(arg.filter))) IN
            /\ hrefs' = found
            /\ pend' = 1..Len(found)
            /\ stage' = [i \in 1..Len(found) |-> "save"]
            /\ IF Len(found) = 0
               THEN /\ pc' = "done"
                    /\ cbs' = Deliver(NoError, 0)
                    /\ fin' = TRUE
               ELSE /\ pc' = "wait"
                    /\ UNCHANGED <<cbs, fin>>)
  /\ UNCHANGED <<store, nCreated, op, arg, tasks, results, acct, reqHref, pre>>
  /\ UNCHANGED <<prev, connVars>>

\* The account.save callback of account i: cb(err), or count += 1; cb().  The
\* final callback runs on the first error, or when every account is done.
UpdateAllSaveDone(i) ==
  /\ op = "updateAll" /\ pc = "wait" /\ i \in pend
  /\ pend' = pend \ {i}
  /\ pc' = IF pend' = {} THEN "done" ELSE "wait"
  /\ \E err \in WriteErrs : resp' = err /\ (
       IF err # NoError
       THEN /\ IF ~fin THEN cbs' = Deliver(err, Undef) /\ fin' = TRUE
               ELSE UNCHANGED <<cbs, fin>>
            /\ UNCHANGED <<store, stage>>
       ELSE LET h == hrefs[i]
                account == Overlay(Resource(h, pre[h], FALSE), arg.data)
            IN /\ store' = [store EXCEPT ![h] = SavedAccount(@, account)]
               /\ stage' = [stage EXCEPT ![i] = "saved"]
               /\ IF ~fin /\ pend' = {}
                  THEN cbs' = Deliver(NoError, Cardinality(Saved \cup {i})) /\ fin' = TRUE
                  ELSE UNCHANGED <<cbs, fin>>)
  /\ UNCHANGED <<nCreated, op, arg, tasks, results, acct, hrefs, reqHref, pre>>
  /\ UNCHANGED <<prev, connVars>>

\* ------------------------------------------------------------- behaviours

\* ------------------------------------------------------------- updateAccount

\* The records updateAccount is applied to: every key of MergeKeys is absent,
\* an empty string, or set.
MergeKeys == {"givenName", "email", "password", "id", "nick"}
Incoming(k) ==
  CASE k = "givenName" -> "Johnny"
    [] k = "email" -> "john@gmail.com"
    [] k = "password" -> "pw3"
    [] k = "id" -> "abc123"
    [] OTHER -> "rdegges"
MergeData ==
  {[k \in {x \in MergeKeys : c[x] # "absent"} |->
      IF c[k] = "empty" THEN "" ELSE Incoming(k)] :
     c \in [MergeKeys -> {"absent", "empty", "set"}]}

\* The accounts it is applied to: fetched with expanded custom data, one with
\* no custom data of its own and one with a key.
MergeAccounts ==
  {Resource(HrefOf(1), NewAccount(userA), TRUE),
   Resource(HrefOf(1), [NewAccount(userB) EXCEPT !.customData = ("nick" :> "elon")], TRUE)}

\* updateAccount(account, data), on its own: arg keeps the two arguments and
\* acct the account after the merge.
UpdateAccountApplied(account, data) ==
  /\ op' = "updateAccount"
  /\ arg' = [account |-> account, data |-> data]
  /\ acct' = updateAccount(account, data)
  /\ UNCHANGED <<store, nCreated, pc, pend, tasks, stage, results, hrefs, reqHref,
                 fin, resp, cbs, pre>>
  /\ UNCHANGED <<prev, connVars>>

MergeNext ==
  \E account \in MergeAccounts, data \in MergeData : UpdateAccountApplied(account, data)

MergeSpec == Init /\ [][MergeNext]_vars

\* ------------------------------------------------------------- locators

\* The ids the conversions are applied to: every string of at most MaxIdLen
\* tokens, the separators of a locator among them.
MaxIdLen == 3
IdTokens == {"u", "1", "/", "?", "#"}
LocatorIds == UNION {[1..n -> IdTokens] : n \in 0..MaxIdLen}

\* convertHrefToId(convertIdToHref(id)), on its own: reqHref keeps the locator
\* built from the id and results the id extracted from it.
Converted(id) ==
  /\ Begin("convert", id)
  /\ pc' = "done"
  /\ cbs' = <<>>
  /\ Locals({}, {}, <<>>, <<convertHrefToId(convertIdToHref(id))>>, <<>>, <<>>,
            convertIdToHref(id))

\* The conversions, and create, whose id is the conversion of an href the
\* remote store handed out.
LocatorNext ==
  \/ \E id \in LocatorIds : Converted(id)
  \/ \E d \in Users : CreateCall(d)
  \/ CreateDone

LocatorSpec == Init /\ [][LocatorNext]_vars

Next ==
  \/ \E d \in Users : CreateCall(d)
  \/ CreateDone
  \/ \E ds \in Batches : CreateBatchCall(ds)
  \/ \E i \in 1..MaxCreated : CreateItemDone(i)
  \/ \E id \in IdArgs : FindCall(id)
  \/ FindDone
  \/ \E id \in IdArgs : ExistsCall(id)
  \/ ExistsDone
  \/ \E f \in Filters : CountCall(f)
  \/ CountDone
  \/ \E f \in Filters : DestroyAllCall(f)
  \/ DestroyAllEnumerated
  \/ \E i \in 1..MaxCreated : DestroyGetDone(i)
  \/ \E i \in 1..MaxCreated : DestroyDeleteDone(i)
  \/ \E cred \in AuthInputs : AuthenticateCall(cred)
  \/ AuthenticateChecked
  \/ AuthenticateResolved
  \/ \E data \in SaveInputs : SaveCall(data)
  \/ SaveDone
  \/ \E f \in AllFilters : AllCall(f)
  \/ AllDone
  \/ \E in \in UpdateAllInputs : UpdateAllCall(in)
  \/ UpdateAllEnumerated
  \/ \E i \in 1..MaxCreated : UpdateAllSaveDone(i)
  \/ \E data \in UocInputs : UpdateOrCreateCall(data)
  \/ UocStrayCreateDone
  \/ UocGetAccountDone
  \/ UocGetAccountsDone
  \/ UocCreateDone
  \/ UocSaveDone
  \/ UocCustomDataSaveDone

Spec == Init /\ [][Next]_vars

\* The connection handle alone: connect calls on a connector just constructed.
ConnectSpec == ConnectInit /\ [][ConnectNext]_vars

\* ------------------------------------------------------------- properties

\* The caller's callback got exactly one delivery, and it carries no error.
Returned == Len(cbs) = 1 /\ cbs[1].err = NoError

\* The href under which the remote store keeps the account the caller names by id.
StoredUnder(id) == {h \in DOMAIN store : convertHrefToId(h) = id}

\* C1: a batch create that succeeds returns one id per input record, and the
\* i-th id names the account created from the i-th record, whatever order the
\* createAccount responses arrived in.
C1_BatchKeepsInputOrder ==
  (op = "createBatch" /\ cbs # <<>> /\ cbs[1].err = NoError) =>
    /\ Len(cbs) = 1
    /\ Len(cbs[1].val) = Len(arg)
    /\ \A i \in 1..Len(arg) :
         LET h == HrefOf(CHOOSE n \in 1..MaxCreated : IdOf(n) = cbs[1].val[i])
         IN /\ \E n \in 1..MaxCreated : IdOf(n) = cbs[1].val[i]
            /\ h \in DOMAIN store \ DOMAIN pre
            /\ store[h] = NewAccount(arg[i])

\* The second record's account was created first, and the batch succeeded.
C1_Witness ==
  /\ op = "createBatch" /\ pc = "done"
  /\ cbs = <<[err |-> NoError, val |-> <<IdOf(2), IdOf(1)>>]>>

\* C2: updateOrCreate with no id and the lower-cased form of the e-mail of an
\* account created with a mixed-case e-mail returns that account's record and
\* leaves the number of accounts as it was.
C2_LowerCasedEmailResolves ==
  (/\ op = "updateOrCreate" /\ pc = "done"
   /\ ~HasId(arg) /\ HasEmail(arg)
   /\ \E h \in DOMAIN pre : /\ pre[h].email # toLowerCase(pre[h].email)
                            /\ toLowerCase(pre[h].email) = arg.f["email"]
   /\ cbs # <<>> /\ cbs[1].err = NoError)
  => /\ Cardinality(DOMAIN store) = Cardinality(DOMAIN pre)
     /\ \E h \in DOMAIN pre : /\ toLowerCase(pre[h].email) = arg.f["email"]
                              /\ cbs[1].val.id = convertHrefToId(h)

\* C3: during and after updateOrCreate every account that was in the store
\* keeps each standard field the incoming record does not carry, and each
\* customData key the incoming record does not carry.
C3_MergeKeepsAbsentFields ==
  op = "updateOrCreate" =>
    \A h \in DOMAIN pre :
      /\ h \in DOMAIN store
      /\ \A f \in standardFields :
           ~Truthy(Get(arg.f, f)) => store[h][f] = pre[h][f]
      /\ \A k \in DOMAIN pre[h].customData \ DOMAIN arg.f :
           /\ k \in DOMAIN store[h].customData
           /\ store[h].customData[k] = pre[h].customData[k]

\* An account with a given name and a customData key was updated by id with a
\* record that carries the e-mail alone: the e-mail changed, the rest is there.
C3_Witness ==
  /\ op = "updateOrCreate" /\ pc = "done" /\ Returned
  /\ HasId(arg) /\ DOMAIN arg.f = {"email"}
  /\ LET h == HrefOf(1) IN
       /\ arg.id = IdOf(1)
       /\ h \in DOMAIN pre /\ h \in DOMAIN store
       /\ pre[h].email # arg.f["email"] /\ store[h].email = arg.f["email"]
       /\ pre[h].givenName = "Randall" /\ store[h].givenName = "Randall"
       /\ "nick" \in DOMAIN pre[h].customData
       /\ "nick" \in DOMAIN store[h].customData

\* C4: updateOrCreate with neither id nor email ends with an error for the
\* caller, no record, and the store as it was.
C4_NeitherIdNorEmailFails ==
  (op = "updateOrCreate" /\ pc = "done" /\ ~HasId(arg) /\ ~HasEmail(arg)) =>
    /\ cbs # <<>>
    /\ \A i \in 1..Len(cbs) : cbs[i].err # NoError
    /\ store = pre

\* C5: updateOrCreate with the id of an existing account, once the lookup has
\* answered that account, creates no account, and when it succeeds it returns
\* the input id and the input e-mail, which is then the account's e-mail in the
\* store.
C5_UpdateById ==
  (op = "updateOrCreate" /\ HasId(arg) /\ StoredUnder(arg.id) \cap DOMAIN pre # {}
     /\ DOMAIN acct # {}) =>
    /\ DOMAIN store = DOMAIN pre
    /\ (cbs # <<>> /\ cbs[1].err = NoError) =>
         /\ Len(cbs) = 1
         /\ cbs[1].val.id = arg.id
         /\ HasEmail(arg) =>
              /\ cbs[1].val.email = arg.f["email"]
              /\ \A h \in StoredUnder(arg.id) : store[h].email = arg.f["email"]

\* An existing account got a new e-mail through updateOrCreate by id.
C5_Witness ==
  /\ op = "updateOrCreate" /\ pc = "done" /\ Returned
  /\ HasId(arg) /\ HasEmail(arg)
  /\ \E h \in StoredUnder(arg.id) \cap DOMAIN pre :
       pre[h].email # arg.f["email"] /\ cbs[1].val.email = arg.f["email"]

\* No account of the store has this e-mail, in any letter case.
EmailUnknown(email) ==
  \A h \in DOMAIN pre : toLowerCase(pre[h].email) # toLowerCase(email)

\* C6: updateOrCreate with no id and an e-mail no account has creates at most
\* one account, and when it succeeds exactly one: the returned record has a
\* non-empty id, which names the new account, and the input e-mail.
C6_CreateByUnknownEmail ==
  (op = "updateOrCreate" /\ ~HasId(arg) /\ HasEmail(arg)
     /\ EmailUnknown(arg.f["email"])) =>
    /\ Cardinality(DOMAIN store) <= Cardinality(DOMAIN pre) + 1
    /\ DOMAIN pre \subseteq DOMAIN store
    /\ (cbs # <<>> /\ cbs[1].err = NoError) =>
         /\ Len(cbs) = 1
         /\ cbs[1].val.id # <<>>
         /\ cbs[1].val.email = arg.f["email"]
         /\ Cardinality(DOMAIN store) = Cardinality(DOMAIN pre) + 1
         /\ \E h \in DOMAIN store \ DOMAIN pre :
              /\ convertHrefToId(h) = cbs[1].val.id
              /\ store[h].email = arg.f["email"]

\* updateOrCreate created an account for an e-mail that no account had.
C6_Witness ==
  /\ op = "updateOrCreate" /\ pc = "done" /\ Returned
  /\ ~HasId(arg) /\ HasEmail(arg) /\ EmailUnknown(arg.f["email"])
  /\ DOMAIN pre # {}
  /\ Cardinality(DOMAIN store) = Cardinality(DOMAIN pre) + 1

\* C7: exists(id) answers false, with no error, when no account of the store
\* has that id and the lookup came back with a not-found error.
C7_ExistsFalseWhenAbsent ==
  (op = "exists" /\ pc = "done" /\ StoredUnder(arg) = {} /\ resp = NotFound) =>
    cbs = <<[err |-> NoError, val |-> FALSE]>>

\* C8: exists(id) for the id of an account in the store looks up the account
\* that id names, and answers true when that lookup succeeds.
C8_ExistsTrueForCreated ==
  (op = "exists" /\ pc \in {"wait", "done"} /\ StoredUnder(arg) # {}) =>
    /\ reqHref = convertIdToHref(arg)
    /\ (pc = "done" /\ resp = NoError) => cbs = <<[err |-> NoError, val |-> TRUE]>>

\* C9: find(id) ends with one delivery.  For the id of an account in the store
\* it is the record with that id and the stored givenName, surname and email,
\* unless the remote store fails the lookup (never with not-found); for any
\* other id it is an error and no record.
C9_FindRoundTrip ==
  (op = "find" /\ pc = "done") =>
    /\ Len(cbs) = 1
    /\ \A h \in StoredUnder(arg) :
         /\ cbs[1].err # NotFound
         /\ cbs[1].err = NoError =>
              /\ cbs[1].val.id = arg
              /\ cbs[1].val.givenName = store[h].givenName
              /\ cbs[1].val.surname = store[h].surname
              /\ cbs[1].val.email = store[h].email
    /\ StoredUnder(arg) = {} => cbs[1].err # NoError

\* find returned the record of the second account of the store.
C9_Witness ==
  /\ op = "find" /\ pc = "done" /\ Returned
  /\ arg = IdOf(2) /\ cbs[1].val.id = IdOf(2)
  /\ cbs[1].val.email = store[HrefOf(2)].email
  /\ Cardinality(DOMAIN store) = 2

\* C10: with an empty filter, a count that succeeds returns the number of
\* accounts in the store, and a destroyAll that succeeds returns the number of
\* accounts that were in the store and leaves none (so that the next count
\* returns 0).
C10_CountDestroyAllAgree ==
  /\ (op = "count" /\ arg = NoFilter /\ pc = "done" /\ cbs[1].err = NoError) =>
       /\ Len(cbs) = 1
       /\ cbs[1].val = Cardinality(DOMAIN store)
  /\ (op = "destroyAll" /\ arg = NoFilter /\ cbs # <<>> /\ cbs[1].err = NoError) =>
       /\ Len(cbs) = 1
       /\ pc = "done"
       /\ cbs[1].val = Cardinality(DOMAIN pre)
       /\ DOMAIN store = {}

\* Two accounts were created, destroyAll returned 2, and nothing is left.
C10_Witness ==
  /\ op = "destroyAll" /\ arg = NoFilter /\ pc = "done"
  /\ cbs = <<[err |-> NoError, val |-> 2]>>
  /\ Cardinality(DOMAIN pre) = 2 /\ DOMAIN store = {}

\* The connect calls that were answered with a client handle.
Handed == {k \in 1..Len(conns) : conns[k].cbs # <<>> /\ conns[k].cbs[1].err = NoError}

\* C12: a connect called after some connect has succeeded issues no
\* getApplication lookup, and it is answered once, without error, with the
\* client handle every successful connect was answered with.
C12_ConnectIdempotent ==
  /\ \A j \in Handed : \A k \in Handed : conns[j].cbs[1].val = conns[k].cbs[1].val
  /\ \A k \in 1..Len(conns) :
       conns[k].late =>
         /\ conns[k].lookups = 0
         /\ conns[k].at = "done" => (Len(conns[k].cbs) = 1 /\ k \in Handed)
         /\ \A j \in Handed : conns[j].cbs[1].val = client

\* A first connect succeeded; a connect called after it got the same handle
\* without a lookup.
C12_Witness ==
  /\ Len(conns) >= 2
  /\ conns[1].at = "done" /\ 1 \in Handed
  /\ conns[2].at = "done" /\ conns[2].late /\ conns[2].lookups = 0
  /\ conns[2].cbs = conns[1].cbs

\* C13: once the application handle is set, neither the client handle nor the
\* application handle is written again, also when several connect calls were
\* issued before the first one was answered.
C13_HandleWrittenOnce ==
  [][application # 0 => (application' = application /\ client' = client)]_vars

\* C14: a connect whose getApplication lookup fails is answered once, with the
\* error and no handle, after the one lookup it issued, and it does not set the
\* application handle; while no lookup has succeeded the application handle is
\* unset, no connect has reported success, and every connect called so far has
\* issued its own lookup.
C14_FailedConnectLeavesUnset ==
  /\ \A k \in 1..Len(conns) :
       /\ conns[k].lookups <= 1
       /\ Len(conns[k].cbs) <= 1
       /\ (conns[k].cbs # <<>> /\ conns[k].cbs[1].err # NoError) =>
            /\ conns[k].at = "done"
            /\ conns[k].lookups = 1
            /\ conns[k].cbs[1].val = 0
            /\ application # k
  /\ application # 0 => application \in Handed
  /\ application = 0 =>
       /\ Handed = {}
       /\ \A k \in 1..Len(conns) : conns[k].lookups = 1

\* The first connect failed; the connect called next issued a lookup of its
\* own, which succeeded.
C14_Witness ==
  /\ Len(conns) = 2
  /\ conns[1].at = "done" /\ conns[1].cbs[1].err = ServerError
  /\ conns[2].at = "done" /\ conns[2].lookups = 1 /\ 2 \in Handed
  /\ application = 2

\* The accounts of the store `s` that the query selects, in enumeration order.
Enumerated(s, query) ==
  Enumerate({h \in DOMAIN s : \A k \in DOMAIN query \ {"expand"} : Get(s[h], k) = query[k]})

\* C11: once destroyAll has enumerated, its hrefs are all the matching accounts
\* of the store it was called on; only those are ever removed and no account
\* comes back or changes; an account whose delete completed is gone; the caller
\* gets at most one delivery: success, with the number enumerated, only when
\* every delete has completed, and an error as soon as a fetch or a delete has
\* failed.
C11_DestroyAllPartialFailure ==
  (op = "destroyAll" /\ pc \in {"wait", "done"}) =>
    /\ hrefs = Enumerated(pre, QueryOf(arg))
    /\ Len(cbs) <= 1
    /\ \A h \in DOMAIN store : h \in DOMAIN pre /\ store[h] = pre[h]
    /\ \A h \in DOMAIN pre \ DOMAIN store : \E i \in 1..Len(hrefs) : hrefs[i] = h
    /\ \A i \in 1..Len(hrefs) : stage[i] = "deleted" => hrefs[i] \notin DOMAIN store
    /\ (cbs # <<>> /\ cbs[1].err = NoError) =>
         /\ pend = {}
         /\ cbs[1].val = Len(hrefs)
         /\ \A i \in 1..Len(hrefs) : stage[i] = "deleted"
    /\ resp # NoError => (cbs # <<>> /\ cbs[1].err # NoError /\ cbs[1].val = Undef)

\* Of two accounts one delete failed, which gave the caller the error, and the
\* other delete completed after that: one account is gone, one is left.
C11_Witness ==
  /\ op = "destroyAll" /\ pc = "done" /\ Len(hrefs) = 2
  /\ cbs = <<[err |-> ServerError, val |-> Undef]>>
  /\ resp = NoError
  /\ \E i \in 1..2 : stage[i] = "deleted" /\ hrefs[i] \notin DOMAIN store
  /\ Cardinality(DOMAIN store) = 1

\* C15: when a createAccount of a batch create has failed the caller has got
\* exactly one delivery, an error with no id array; every account a sibling
\* createAccount of the batch has created is in the store, with the fields of
\* its item, whether it was created before or after the error was delivered,
\* and every account the store had is still there unchanged.
C15_BatchFailureNoRollback ==
  (op = "createBatch" /\ (resp # NoError \/ (cbs # <<>> /\ cbs[1].err # NoError))) =>
    /\ cbs = <<[err |-> cbs[1].err, val |-> Undef]>>
    /\ cbs[1].err # NoError
    /\ \A h \in DOMAIN pre : h \in DOMAIN store /\ store[h] = pre[h]
    /\ \A i \in 1..Len(arg) :
         results[i] # <<>> =>
           /\ convertIdToHref(results[i]) \in DOMAIN store \ DOMAIN pre
           /\ store[convertIdToHref(results[i])] = NewAccount(arg[i])

\* The first createAccount failed and the caller got the error; the second one
\* was answered after that and its account is in the store.
C15_Witness ==
  /\ op = "createBatch" /\ pc = "done" /\ Len(arg) = 2
  /\ cbs = <<[err |-> ServerError, val |-> Undef]>>
  /\ resp = NoError
  /\ results[1] = <<>> /\ results[2] # <<>>
  /\ convertIdToHref(results[2]) \in DOMAIN store \ DOMAIN pre

\* The searchable fields, as the allow-list names them.
AllowList == {"givenName", "middleName", "surname", "username", "email"}

\* The keys of a where mapping that are allow-listed and have a string condition.
Allowed(where) ==
  IF where.t = "object"
  THEN {k \in DOMAIN where.v : k \in AllowList /\ where.v[k].t = "string"}
  ELSE {}

\* C20: the query built from the where of a filter has exactly the allow-listed
\* keys of where whose condition is a string, each with its value (no key when
\* where is null or not an object); and when all returns, it returns the
\* records of exactly the accounts that meet those conditions, up to the limit,
\* so only records with the asked givenName, whatever other keys where has.
C20_QueryHasAllowListedKeys ==
  (op \in {"all", "count", "destroyAll"}) =>
    LET where == arg.where
        query == buildWhere(where)
        meets == {h \in DOMAIN store :
                    \A k \in Allowed(where) : Get(store[h], k) = where.v[k].v}
        want == Limited(Enumerate(meets), LimitOf(arg))
    IN /\ DOMAIN query = Allowed(where)
       /\ \A k \in DOMAIN query : query[k] = where.v[k].v
       /\ (op = "all" /\ pc = "done") =>
            /\ Len(cbs) = 1 /\ cbs[1].err = NoError
            /\ Len(cbs[1].val) = Len(want)
            /\ \A i \in 1..Len(want) :
                 /\ cbs[1].val[i].id = convertHrefToId(want[i])
                 /\ "givenName" \in Allowed(where) =>
                      cbs[1].val[i].givenName = where.v["givenName"].v

\* all({where: {givenName: "Randall", customField: "x"}}) on a store with a
\* Randall and another account returned the one record of Randall.
C20_Witness ==
  /\ op = "all" /\ pc = "done"
  /\ DOMAIN arg.where.v = {"givenName", "customField"}
  /\ Cardinality(DOMAIN store) = 2
  /\ \E h \in DOMAIN store : store[h].givenName # "Randall"
  /\ Len(cbs[1].val) = 1 /\ cbs[1].val[1].givenName = "Randall"

C19_AuthenticateAfterBothChecks ==
  (op = "authenticate") =>
    /\ store = pre
    /\ pc \in {"wait", "resolve"} => cbs = <<>>
    /\ pc = "resolve" => (resp = NoError /\ reqHref \in Holders(arg))
    /\ pc = "done" =>
         /\ Len(cbs) = 1
         /\ cbs[1].err = resp
         /\ resp # NoError => cbs[1].val = Undef
         /\ resp = NoError =>
              /\ reqHref \in Holders(arg)
              /\ cbs[1].val.id = convertHrefToId(reqHref)
              /\ cbs[1].val.email = arg.login
              /\ cbs[1].val.givenName = store[reqHref].givenName
              /\ cbs[1].val.surname = store[reqHref].surname

\* The credential check succeeded and the resolution of the account failed:
\* the caller got that error and no record.
C19_Witness ==
  /\ op = "authenticate" /\ pc = "done"
  /\ reqHref \in Holders(arg)
  /\ resp = BadRequest
  /\ cbs = <<[err |-> BadRequest, val |-> Undef]>>

\* C18: updateAll saves the matching accounts of the store it was called on
\* and no other: an account whose save has succeeded has the values of the
\* field map and otherwise its old fields, every other account is as it was.
\* The caller gets at most one delivery: the count, which is the number of
\* successful saves and of matching accounts, only when every save has
\* succeeded; an error and no count as soon as the enumeration or a save has
\* failed.
C18_UpdateAllCountsSaves ==
  (op = "updateAll" /\ pc \in {"wait", "done"}) =>
    /\ Len(cbs) <= 1
    /\ DOMAIN store = DOMAIN pre
    /\ hrefs # <<>> => hrefs = Enumerated(pre, QueryOf(arg.filter))
    /\ \A h \in DOMAIN store :
         \/ store[h] = pre[h]
         \/ \E i \in Saved : hrefs[i] = h
    /\ \A i \in Saved :
         \A k \in DOMAIN pre[hrefs[i]] :
           store[hrefs[i]][k] =
             IF k \in DOMAIN arg.data THEN arg.data[k] ELSE pre[hrefs[i]][k]
    /\ (cbs # <<>> /\ cbs[1].err = NoError) =>
         /\ pend = {}
         /\ cbs[1].val = Cardinality(Saved)
         /\ cbs[1].val = Len(Enumerated(pre, QueryOf(arg.filter)))
    /\ resp # NoError => (cbs # <<>> /\ cbs[1].err # NoError /\ cbs[1].val = Undef)

\* Of two matching accounts the save of one failed, which gave the caller the
\* error; the other was saved and has the new e-mail.
C18_Witness ==
  /\ op = "updateAll" /\ pc = "done" /\ Len(hrefs) = 2
  /\ cbs = <<[err |-> ServerError, val |-> Undef]>>
  /\ Cardinality(Saved) = 1
  /\ \E i \in Saved : /\ store[hrefs[i]].email = "foo@bar.com"
                      /\ pre[hrefs[i]].email = "john@gmail.com"

\* C16: when the remote call answered last came back with an error (for
\* exists: with a 5xx error), the handler has not thrown and the caller's
\* callback has been handed an error.
C16_RemoteErrorsDelivered ==
  (resp # NoError /\ (op # "exists" \/ resp >= 500)) =>
    /\ pc # "crashed"
    /\ \E i \in 1..Len(cbs) : cbs[i].err # NoError

\* C21: when all returns, it has visited every account the remote store
\* enumerates for the query, M of them; with a limit that is a number L > 0 it
\* returns the records of the first min(L, M) of them, with any other limit
\* (none, 0, not a number) of all M, in enumeration order.
C21_LimitTruncatesAfterEnumeration ==
  (op = "all" /\ pc = "done") =>
    LET M == Len(hrefs)
        L == arg.limit.v
        n == IF arg.limit.t = "number" /\ L > 0 THEN (IF L < M THEN L ELSE M) ELSE M
    IN /\ hrefs = Enumerated(store, AllQuery(arg))
       /\ Len(cbs) = 1 /\ cbs[1].err = NoError
       /\ Len(cbs[1].val) = n
       /\ \A i \in 1..n :
            /\ cbs[1].val[i].id = convertHrefToId(hrefs[i])
            /\ cbs[1].val[i].email = store[hrefs[i]].email

\* all with a limit of 1 visited two accounts and returned the record of the
\* first.
C21_Witness ==
  /\ op = "all" /\ pc = "done"
  /\ arg.limit = Num(1)
  /\ Len(hrefs) = 2
  /\ Len(cbs[1].val) = 1 /\ cbs[1].val[1].id = convertHrefToId(hrefs[1])

\* The writes of updateOrCreate that have been answered without error.
UocOk == {t \in DOMAIN stage : stage[t] = NoError}

\* C22: in updateOrCreate on a found account, while no write has been answered
\* every write of the call is in flight; each write that has succeeded has
\* its effect in the store, whatever became of the other; and when of the two
\* writes exactly one has failed, the caller has got one delivery, that error
\* and no record, and the store holds the effect of the other write alone.
C22_ParallelWritesNotAtomic ==
  (op = "updateOrCreate" /\ DOMAIN acct # {}) =>
    LET h == acct.href IN
    /\ DOMAIN stage = {} =>
         /\ "save" \in tasks
         /\ CustomDataDirty(acct) => "cd" \in tasks
         /\ store = pre
    /\ "save" \in UocOk => store[h].email = acct.email
    /\ "cd" \in UocOk =>
         \A k \in DOMAIN acct.customData \ {"href"} :
           /\ k \in DOMAIN store[h].customData
           /\ store[h].customData[k] = acct.customData[k]
    /\ (DOMAIN stage = {"save", "cd"} /\ Cardinality(UocOk) = 1) =>
         /\ Len(cbs) = 1
         /\ cbs[1].err # NoError
         /\ cbs[1].val = Undef
         /\ "save" \in UocOk => store[h] = SavedAccount(pre[h], acct)
         /\ "cd" \in UocOk => store[h] = SavedCustomData(pre[h], acct)

\* The save of the account succeeded and changed its e-mail, the save of the
\* custom data failed: the caller got the error and no record, and the new
\* e-mail is in the store.
C22_Witness ==
  /\ op = "updateOrCreate" /\ pc = "done" /\ DOMAIN acct # {}
  /\ DOMAIN stage = {"save", "cd"}
  /\ stage["save"] = NoError /\ stage["cd"] = ServerError
  /\ cbs = <<[err |-> ServerError, val |-> Undef]>>
  /\ store[acct.href].email # pre[acct.href].email
  /\ store[acct.href].customData = pre[acct.href].customData

\* The records a call has handed over: the list of all, or the one record of
\* find, authenticate and updateOrCreate; results holds the account objects
\* they were projected from.
Records ==
  LET ok == {i \in 1..Len(cbs) : cbs[i].err = NoError}
  IN IF ok = {} THEN <<>>
     ELSE LET v == cbs[CHOOSE i \in ok : TRUE].val
          IN IF op = "all" THEN v ELSE <<v>>

\* C24: no record handed back by find, all, updateOrCreate or authenticate has
\* a password field, and a record has customData exactly when the account
\* object of the remote response had it, and then the response's own.
C24_NoPasswordCustomDataAsAnswered ==
  (op \in {"find", "all", "updateOrCreate", "authenticate"}) =>
    /\ Len(Records) = Len(results)
    /\ \A i \in 1..Len(Records) :
         /\ "password" \notin DOMAIN Records[i]
         /\ "customData" \in DOMAIN Records[i] <=> DOMAIN results[i].customData # {}
         /\ "customData" \in DOMAIN Records[i]
              => Records[i].customData = results[i].customData

\* find of an account created with a password: one answer without customData,
\* and the record has no customData and no password.
C24_Witness ==
  /\ op = "find" /\ pc = "done" /\ Len(results) = 1
  /\ store[results[1].href].password = "pw"
  /\ DOMAIN results[1].customData = {}
  /\ Len(cbs) = 1 /\ cbs[1].err = NoError
  /\ DOMAIN cbs[1].val = {"id", "givenName", "surname", "email"}

\* C23: when exists has answered a boolean for an id and is called again with
\* the same id right after, with no other call in between, a boolean it
\* answers is the same one, and the store is as it was.
C23_ExistsTwiceSameBoolean ==
  (/\ op = "exists" /\ pc = "done"
   /\ Len(prev) = 1 /\ prev[1].err = NoError
   /\ Len(cbs) = 1 /\ cbs[1].err = NoError)
    => cbs[1].val = prev[1].val /\ store = pre

\* Two calls in a row for the id of a stored account, the first lookup
\* answered with the account and the second with not-found.
C23_Witness ==
  /\ op = "exists" /\ pc = "done" /\ resp = NotFound
  /\ StoredUnder(arg) # {}
  /\ prev = <<[err |-> NoError, val |-> TRUE]>>
  /\ cbs = <<[err |-> NoError, val |-> TRUE]>>

\* C25: once updateOrCreate has found its account, by id or by e-mail, the
\* customData write is among the writes it issues exactly when the merged
\* account's customData has more keys than its href.
C25_CustomDataWriteIffDirty ==
  (op = "updateOrCreate" /\ DOMAIN acct # {}) =>
    ("cd" \in tasks \cup DOMAIN stage <=> CustomDataDirty(acct))

\* C26: the merge sets each of givenName, surname, middleName and email to the
\* incoming value when that is present and truthy and else keeps the
\* account's; sets the password only when the incoming one is present; and
\* writes every other key of the record but id and password into the custom
\* data, whose other keys stay: id, password and the four standard fields do
\* not become custom-data keys.
C26_MergeSemantics ==
  (op = "updateAccount") =>
    LET a == arg.account
        d == arg.data
        present(k) == k \in DOMAIN d /\ d[k] \notin {Undef, ""}
        custom == DOMAIN d \ ({"id", "password"} \cup standardFields)
    IN /\ \A f \in standardFields : acct[f] = IF present(f) THEN d[f] ELSE a[f]
       /\ acct.password = IF present("password") THEN d["password"] ELSE a.password
       /\ DOMAIN acct.customData = DOMAIN a.customData \cup custom
       /\ \A k \in custom : acct.customData[k] = d[k]
       /\ \A k \in DOMAIN a.customData \ custom : acct.customData[k] = a.customData[k]
       /\ DOMAIN acct.customData \cap ({"id", "password"} \cup standardFields) = {}
       /\ acct.href = a.href

\* A record with an id, a password, an empty e-mail, a given name and a custom
\* key, merged into an account that has an e-mail.
C26_Witness ==
  /\ op = "updateAccount"
  /\ DOMAIN arg.data = MergeKeys
  /\ arg.data["email"] = "" /\ arg.data["password"] = "pw3"
  /\ arg.data["givenName"] = "Johnny" /\ arg.data["nick"] = "rdegges"
  /\ arg.account.email = "Foo@Bar.com"
  /\ acct.email = "Foo@Bar.com" /\ acct.givenName = "Johnny" /\ acct.password = "pw3"
  /\ acct.customData = ("href" :> CustomDataHref) @@ ("nick" :> "rdegges")

\* C27: a call whose remote calls have all been answered has called the
\* caller's callback exactly once.
C27_CallbackExactlyOnce ==
  (pc = "done") => Len(cbs) = 1

\* C28: find, exists, count, all and authenticate are read-only: whatever the
\* arguments and however the remote calls are answered, the accounts of the
\* store and their fields are those the store had when the verb was called;
\* and no verb changes the connection handle or issues a connect.
C28_ReadOnlyVerbs ==
  /\ (op \in {"find", "exists", "count", "all", "authenticate"}) => store = pre
  /\ client = 1 /\ application = 1 /\ Len(conns) = 1

\* all has enumerated and projected two stored accounts, and they are stored
\* as before.
C28_Witness ==
  /\ op = "all" /\ pc = "done" /\ Len(cbs) = 1 /\ cbs[1].err = NoError
  /\ Len(cbs[1].val) = 2
  /\ Cardinality(DOMAIN store) = 2 /\ store = pre
  /\ client = 1 /\ application = 1

\* The filter has a where object with conditions, and every one of them is on
\* a key outside the allow-list or has a value that is not a string.
AllDropped(filter) ==
  /\ filter.where.t = "object"
  /\ DOMAIN filter.where.v # {}
  /\ \A k \in DOMAIN filter.where.v :
       k \notin searchableAttrs \/ filter.where.v[k].t # "string"

\* C29: with a filter whose conditions are all dropped, count, all, destroyAll
\* and updateAll act on the accounts an empty filter selects, which are all
\* of them: count answers their number, all visits and returns them all, a
\* destroyAll that succeeds leaves the store empty, and an updateAll that
\* succeeds has overwritten the fields of every account.
C29_DroppedWhereSelectsAll ==
  (op \in {"count", "all", "destroyAll", "updateAll"}) =>
    LET filter == IF op = "updateAll" THEN arg.filter ELSE arg
        everyone == Enumerated(pre, QueryOf(NoFilter))
        ok == cbs # <<>> /\ cbs[1].err = NoError
    IN AllDropped(filter) =>
         /\ Len(everyone) = Cardinality(DOMAIN pre)
         /\ (op = "count" /\ ok) => cbs[1].val = Len(everyone)
         /\ (op = "all" /\ ok) =>
              /\ hrefs = everyone
              /\ Len(cbs[1].val) = Len(Limited(everyone, LimitOf(filter)))
         /\ (op = "destroyAll" /\ pc \in {"wait", "done"}) =>
              /\ hrefs = everyone
              /\ ok => (cbs[1].val = Len(everyone) /\ DOMAIN store = {})
         /\ (op = "updateAll" /\ (hrefs # <<>> \/ ok)) =>
              /\ hrefs = everyone
              /\ ok => /\ cbs[1].val = Len(everyone)
                       /\ \A h \in DOMAIN store : \A k \in DOMAIN arg.data :
                            store[h][k] = arg.data[k]

\* destroyAll called with {where: {nick: 'rdegges'}} on two accounts, neither
\* of which has a nick: both are gone.
C29_Witness ==
  /\ op = "destroyAll" /\ pc = "done" /\ AllDropped(arg)
  /\ Cardinality(DOMAIN pre) = 2
  /\ cbs = <<[err |-> NoError, val |-> 2]>>
  /\ DOMAIN store = {}

\* The tokens of a string of the model.
Tokens(id) == {id[i] : i \in 1..Len(id)}

\* The id create has handed over is the last path segment of the locator of
\* the account it created, and the locator built from it is that locator.
CreatedIdIsLastSegment ==
  (op = "create" /\ pc = "done" /\ cbs[1].err = NoError) =>
    \E h \in DOMAIN store \ DOMAIN pre :
      /\ DOMAIN store = DOMAIN pre \cup {h}
      /\ cbs[1].val = convertHrefToId(h)
      /\ cbs[1].val = SubSeq(h, Len(Template) + 1, Len(h))
      /\ convertIdToHref(cbs[1].val) = h

\* C30, for ids free of all three separators: for every id that contains
\* none of '/', '?' and '#', the
\* id extracted from the locator built from the id (the template, then the
\* id) is the id; and the id create returns is the last path segment of the
\* created account's locator.
C30_LocatorRoundTrip ==
  /\ (op = "convert" /\ Tokens(arg) \cap {"/", "?", "#"} = {}) =>
       /\ reqHref = Template \o arg
       /\ results = <<arg>>
  /\ CreatedIdIsLastSegment

\* The id of an account create has stored, converted to its locator and back.
C30_Witness ==
  /\ op = "convert" /\ arg = IdOf(1) /\ HrefOf(1) \in DOMAIN store
  /\ reqHref = HrefOf(1)
  /\ results = <<IdOf(1)>>

\* C30, for every id without '/': the round trip gives back every id that
\* contains no '/'.
C30_RoundTripWithoutSlash ==
  /\ (op = "convert" /\ "/" \notin Tokens(arg)) => results = <<arg>>
  /\ CreatedIdIsLastSegment
====
